---- MODULE Spec2Model ----
(***************************************************************************)
(* A model of src/src/main.py: the chat relay of the local LLM web         *)
(* chatbot.  The state is the process-wide conversation_history list, the  *)
(* chatlog.json file, and the position of every chat request in flight     *)
(* (the coroutine of chat() and, for a streamed request, the generator     *)
(* stream_generator()).  Python values are modelled as JSON values, a str  *)
(* as the sequence of the pieces it was concatenated from, and the JSON    *)
(* text of chatlog.json and of the backend's bodies and chunks as          *)
(* sequences of tokens, so that json.dump / json.loads are computed and    *)
(* not assumed.                                                            *)
(***************************************************************************)
EXTENDS Integers, Sequences, FiniteSets, TLC

(***************************************************************************)
(* Bounds of the model.                                                    *)
(***************************************************************************)
\* chat requests accepted in one run of Spec (one relay in flight at a time)
MaxRequests == 1
\* chunks the backend delivers on one streamed call in Spec
MaxChunks == 2
\* chunks the backend delivers on one streamed call in SpecOverlap
MaxOverlapChunks == 1
\* chat requests accepted in one run of SpecDurable, over all the lives of
\* the process
MaxDurableRequests == 2

(***************************************************************************)
(* Python values.  None, numbers, str, list and dict, as json.loads        *)
(* produces them and json.dump consumes them.  A dict is the sequence of   *)
(* its (key, value) pairs in insertion order.                              *)
(***************************************************************************)
JNull == [t |-> "null", s |-> <<>>, items |-> <<>>]
JNum(digits) == [t |-> "num", s |-> digits, items |-> <<>>]
JStr(text) == [t |-> "str", s |-> text, items |-> <<>>]
JList(elems) == [t |-> "list", s |-> <<>>, items |-> elems]
JDict(pairs) == [t |-> "dict", s |-> <<>>, items |-> pairs]
Pair(key, val) == [k |-> key, v |-> val]

\* d[key] = val on a dict's pairs: an existing key keeps its place
PutKey(pairs, key, val) ==
  IF \E i \in 1..Len(pairs) : pairs[i].k = key
  THEN [i \in 1..Len(pairs) |-> IF pairs[i].k = key THEN Pair(key, val) ELSE pairs[i]]
  ELSE Append(pairs, Pair(key, val))

HasKey(d, key) == \E i \in 1..Len(d.items) : d.items[i].k = key

\* d[key], for a dict d that has the key
DictItem(d, key) ==
  d.items[CHOOSE i \in 1..Len(d.items) : d.items[i].k = key].v

\* d.get(key, default), for a dict d
DictGet(d, key, default) == IF HasKey(d, key) THEN DictItem(d, key) ELSE default

\* bool(v): None, 0, "", [] and {} are falsy
Truthy(v) ==
  CASE v.t = "null" -> FALSE
    [] v.t = "num" -> v.s # <<"0">>
    [] v.t = "str" -> v.s # <<>>
    [] OTHER -> v.items # <<>>

(***************************************************************************)
(* JSON text, as a sequence of tokens.  A token is a punctuation mark, a   *)
(* string literal, a number, null, a run of whitespace, or "xbyte": bytes  *)
(* that are not valid UTF-8 (a multi-byte character cut by a chunk         *)
(* boundary).                                                              *)
(***************************************************************************)
Tok(kind) == [k |-> kind, s |-> <<>>]
TStr(text) == [k |-> "str", s |-> text]
TNum(digits) == [k |-> "num", s |-> digits]
WS == Tok("ws")

ParseFail == [ok |-> FALSE, v |-> JNull, next |-> 0]
ParseOk(val, nxt) == [ok |-> TRUE, v |-> val, next |-> nxt]

RECURSIVE ParseValue(_, _), ParseItems(_, _, _), ParseMembers(_, _, _)
\* one JSON value starting at token i of ts (whitespace already removed)
ParseValue(ts, i) ==
  IF i > Len(ts) THEN ParseFail
  ELSE CASE ts[i].k = "str" -> ParseOk(JStr(ts[i].s), i + 1)
         [] ts[i].k = "num" -> ParseOk(JNum(ts[i].s), i + 1)
         [] ts[i].k = "null" -> ParseOk(JNull, i + 1)
         [] ts[i].k = "[" ->
              IF i + 1 <= Len(ts) /\ ts[i + 1].k = "]"
              THEN ParseOk(JList(<<>>), i + 2)
              ELSE ParseItems(ts, i + 1, <<>>)
         [] ts[i].k = "{" ->
              IF i + 1 <= Len(ts) /\ ts[i + 1].k = "}"
              THEN ParseOk(JDict(<<>>), i + 2)
              ELSE ParseMembers(ts, i + 1, <<>>)
         [] OTHER -> ParseFail

\* the elements of a list, from token i, up to its "]"
ParseItems(ts, i, acc) ==
  LET r == ParseValue(ts, i) IN
  IF ~r.ok \/ r.next > Len(ts) THEN ParseFail
  ELSE IF ts[r.next].k = "," THEN ParseItems(ts, r.next + 1, Append(acc, r.v))
  ELSE IF ts[r.next].k = "]" THEN ParseOk(JList(Append(acc, r.v)), r.next + 1)
  ELSE ParseFail

\* the members of a dict, from token i, up to its "}"
ParseMembers(ts, i, acc) ==
  IF i + 1 > Len(ts) \/ ts[i].k # "str" \/ ts[i + 1].k # ":" THEN ParseFail
  ELSE LET r == ParseValue(ts, i + 2) IN
       IF ~r.ok \/ r.next > Len(ts) THEN ParseFail
       ELSE IF ts[r.next].k = ","
            THEN ParseMembers(ts, r.next + 1, PutKey(acc, ts[i].s, r.v))
       ELSE IF ts[r.next].k = "}"
            THEN ParseOk(JDict(PutKey(acc, ts[i].s, r.v)), r.next + 1)
       ELSE ParseFail

IsSpace(tk) == tk.k = "ws"
NotSpace(tk) == tk.k # "ws"

\* json.loads(text): [ok, v]; ok = FALSE is json.JSONDecodeError (no value,
\* a malformed value, or extra data after the value)
json_loads(text) ==
  LET ts == SelectSeq(text, NotSpace)
      r == ParseValue(ts, 1)
  IN IF r.ok /\ r.next = Len(ts) + 1 THEN [ok |-> TRUE, v |-> r.v]
     ELSE [ok |-> FALSE, v |-> JNull]

RECURSIVE DumpValue(_), DumpItems(_, _), DumpMembers(_, _)
\* json.dump(v, indent=2): the tokens written, with the whitespace of the
\* indentation after every opening bracket and comma and before every
\* closing bracket of a non-empty container
DumpValue(v) ==
  CASE v.t = "null" -> <<Tok("null")>>
    [] v.t = "num" -> <<TNum(v.s)>>
    [] v.t = "str" -> <<TStr(v.s)>>
    [] v.t = "list" ->
         IF v.items = <<>> THEN <<Tok("["), Tok("]")>>
         ELSE <<Tok("["), WS>> \o DumpItems(v.items, 1) \o <<WS, Tok("]")>>
    [] OTHER ->
         IF v.items = <<>> THEN <<Tok("{"), Tok("}")>>
         ELSE <<Tok("{"), WS>> \o DumpMembers(v.items, 1) \o <<WS, Tok("}")>>

DumpItems(elems, i) ==
  IF i = Len(elems) THEN DumpValue(elems[i])
  ELSE DumpValue(elems[i]) \o <<Tok(","), WS>> \o DumpItems(elems, i + 1)

DumpMembers(pairs, i) ==
  LET one == <<TStr(pairs[i].k), Tok(":")>> \o DumpValue(pairs[i].v) IN
  IF i = Len(pairs) THEN one
  ELSE one \o <<Tok(","), WS>> \o DumpMembers(pairs, i + 1)

\* text.strip(): leading and trailing whitespace removed
RECURSIVE Strip(_)
Strip(text) ==
  IF text = <<>> THEN <<>>
  ELSE IF IsSpace(Head(text)) THEN Strip(Tail(text))
  ELSE IF IsSpace(text[Len(text)]) THEN Strip(SubSeq(text, 1, Len(text) - 1))
  ELSE text

\* chunk.decode("utf-8"): ok = FALSE is UnicodeDecodeError
Decode(bytes) ==
  IF \E i \in 1..Len(bytes) : bytes[i].k = "xbyte"
  THEN [ok |-> FALSE, text |-> <<>>]
  ELSE [ok |-> TRUE, text |-> bytes]

(***************************************************************************)
(* Conversation turns and the module's constants.                          *)
(***************************************************************************)
SYSTEM_PROMPT == <<"You are a friendly and helpful AI assistant.">>

\* {"role": role, "content": content}
Turn(role, content) ==
  JDict(<<Pair(<<"role">>, JStr(<<role>>)), Pair(<<"content">>, content)>>)

\* a faulty reset_history(), which leaves the list empty (tests C1)
NoHistory == <<>>

\* what reset_history() binds conversation_history to
FreshHistory == <<Turn("system", JStr(SYSTEM_PROMPT))>>

\* what chat() appends first: the user's turn
UserTurn(message) == Turn("user", JStr(message))

\* what a committed reply appends
AssistantTurn(content) == Turn("assistant", content)

(***************************************************************************)
(* chatlog.json.  save_history_to_file() opens the file for writing and    *)
(* dumps the list conversation_history is bound to; when the storage is    *)
(* unavailable open() raises OSError and the file is left as it was.       *)
(***************************************************************************)
NoFile == [exists |-> FALSE, text |-> <<>>]
FileOf(text) == [exists |-> TRUE, text |-> text]

\* a faulty save_history_to_file(), which writes nothing (tests C2)
save_nothing(history, log, store) == [raised |-> "", log |-> log]

save_history_to_file(history, log, store) ==
  IF store = "ok"
  THEN [raised |-> "", log |-> FileOf(DumpValue(JList(history)))]
  ELSE [raised |-> "OSError", log |-> log]

\* a faulty load, which always starts a fresh conversation (tests C14)
load_fresh(log) == [raised |-> "", history |-> FreshHistory]

\* load_history_from_file(): the list conversation_history is bound to, or
\* the exception that leaves the module import
load_history_from_file(log) ==
  IF ~log.exists THEN [raised |-> "", history |-> FreshHistory]
  ELSE IF Strip(log.text) = <<>> THEN [raised |-> "", history |-> FreshHistory]
  ELSE LET loaded == json_loads(Strip(log.text)) IN
       IF ~loaded.ok THEN [raised |-> "", history |-> FreshHistory]
       ELSE IF loaded.v.t # "list" \/ loaded.v.items = <<>>
            THEN [raised |-> "", history |-> FreshHistory]
       ELSE IF loaded.v.items[1].t # "dict"
            THEN [raised |-> "AttributeError", history |-> <<>>]
       ELSE IF DictGet(loaded.v.items[1], <<"role">>, JNull) = JStr(<<"system">>)
            THEN [raised |-> "", history |-> loaded.v.items]
       ELSE [raised |-> "", history |-> FreshHistory]


(***************************************************************************)
(* The backend (Ollama) and the caller, as the inputs of the model.        *)
(***************************************************************************)
\* ChatRequest.message
Messages == {<<"Hi">>}
OverlapMessages == {<<"Hi">>, <<"Hi stream">>}

\* {"message": {"content": content}} as the backend writes it, newline last
MessageLine(content) ==
  <<Tok("{"), TStr(<<"message">>), Tok(":"), Tok("{"), TStr(<<"content">>), Tok(":")>>
    \o content \o <<Tok("}"), Tok("}"), WS>>

Word(w) == [k |-> "word", s |-> <<w>>]

\* chunks of a streamed body that the relay skips or takes a fragment from
GoodHello == MessageLine(<<TStr(<<"Hello ">>)>>)
GoodWorld == MessageLine(<<TStr(<<"World">>)>>)
\* the first half of a line cut by a chunk boundary
SplitLine == <<Tok("{"), TStr(<<"message">>), Tok(":"), Tok("{"), TStr(<<"content">>)>>
EmptyContent == MessageLine(<<TStr(<<>>)>>)
NoMessage == <<Tok("{"), TStr(<<"done">>), Tok(":"), TNum(<<"1">>), Tok("}"), WS>>
BlankLine == <<WS>>
EmptyChunk == <<>>
\* chunks on which the relay raises
NotAnObject == <<TNum(<<"5">>), WS>>
MessageNull == <<Tok("{"), TStr(<<"message">>), Tok(":"), Tok("null"), Tok("}"), WS>>
ContentNumber == MessageLine(<<TNum(<<"5">>)>>)
CutCharacter == <<Tok("{"), TStr(<<"message">>), Tok(":"), Tok("xbyte")>>

Chunks ==
  { GoodHello, GoodWorld, SplitLine, EmptyContent, NoMessage, BlankLine, EmptyChunk,
    NotAnObject, MessageNull, ContentNumber, CutCharacter }

OverlapChunks == { GoodHello, SplitLine, NotAnObject }

\* what `await client.post(...)` yields: a response (status_code and body
\* text) or an exception of httpx (connection refused, timeout)
HelloThere == MessageLine(<<TStr(<<"Hello there!">>)>>)

PostResults ==
  { [raised |-> "", status_code |-> 200, text |-> HelloThere],
    [raised |-> "", status_code |-> 200, text |-> MessageLine(<<TStr(<<>>)>>)],
    [raised |-> "", status_code |-> 200,
     text |-> <<Tok("{"), TStr(<<"message">>), Tok(":"), Tok("{"), Tok("}"), Tok("}")>>],
    [raised |-> "", status_code |-> 200,
     text |-> <<Tok("{"), TStr(<<"message">>), Tok(":"), Tok("null"), Tok("}")>>],
    [raised |-> "", status_code |-> 200, text |-> <<Word("<html>")>>],
    [raised |-> "", status_code |-> 500, text |-> <<Word("oops")>>],
    [raised |-> "", status_code |-> 404, text |-> <<>>],
    [raised |-> "httpx.ConnectError", status_code |-> 0, text |-> <<>>],
    [raised |-> "httpx.ReadTimeout", status_code |-> 0, text |-> <<>>] }

OverlapPostResults ==
  {p \in PostResults : p.text \in {HelloThere, <<Word("oops")>>} \/ p.raised = "httpx.ConnectError"}

\* chatlog.json as the process finds it at startup
SavedTalk ==
  <<Turn("system", JStr(SYSTEM_PROMPT)), UserTurn(<<"Hi">>),
    AssistantTurn(JStr(<<"Hello there!">>))>>

StartFiles ==
  { NoFile,
    FileOf(<<>>),
    FileOf(<<WS>>),
    FileOf(<<Tok("["), Tok("{"), TStr(<<"role">>)>>),
    FileOf(<<Tok("{"), Tok("}")>>),
    FileOf(<<Tok("["), Tok("]")>>),
    FileOf(DumpValue(JList(<<JStr(<<"system">>)>>))),
    FileOf(DumpValue(JList(<<JDict(<<Pair(<<"content">>, JStr(<<"Hi">>))>>)>>))),
    FileOf(DumpValue(JList(<<UserTurn(<<"Hi">>)>>))),
    FileOf(DumpValue(JList(FreshHistory))),
    FileOf(DumpValue(JList(SavedTalk))) }

OverlapStartFiles ==
  { NoFile, FileOf(DumpValue(JList(<<JStr(<<"system">>)>>))), FileOf(DumpValue(JList(SavedTalk))) }

(***************************************************************************)
(* What chat() computes from the backend's answers.                        *)
(***************************************************************************)
\* a faulty message, which leaves the body out (tests C7)
ErrorTextStatusOnly(status_code, text) == <<"Error ", status_code>>

\* f"Error {status_code}: {text}"
ErrorText(status_code, text) == <<"Error ", status_code, ": ", text>>

\* a faulty buffered branch, which answers with an empty reply when the
\* body has no message.content (tests C16)
BufferedOutcomeLenient(resp) ==
  IF resp.raised # ""
  THEN [kind |-> "fault", reply |-> JNull, error |-> <<>>, raised |-> resp.raised]
  ELSE IF resp.status_code # 200
  THEN [kind |-> "error", reply |-> JNull,
        error |-> ErrorText(resp.status_code, resp.text), raised |-> ""]
  ELSE LET reply_data == json_loads(resp.text)
           message == IF reply_data.ok /\ reply_data.v.t = "dict"
                      THEN DictGet(reply_data.v, <<"message">>, JDict(<<>>))
                      ELSE JDict(<<>>)
           reply == IF message.t = "dict"
                    THEN DictGet(message, <<"content">>, JStr(<<>>))
                    ELSE JStr(<<>>)
       IN [kind |-> "response", reply |-> reply, error |-> <<>>, raised |-> ""]

\* lines 167-177: what the buffered branch does with the response of
\* client.post, before it touches the conversation.  kind is "response"
\* ({"response": reply}, after the append and the save), "error"
\* ({"error": ...}) or "fault" (an exception leaves chat())
BufferedOutcome(resp) ==
  IF resp.raised # ""
  THEN [kind |-> "fault", reply |-> JNull, error |-> <<>>, raised |-> resp.raised]
  ELSE IF resp.status_code # 200
  THEN [kind |-> "error", reply |-> JNull,
        error |-> ErrorText(resp.status_code, resp.text), raised |-> ""]
  ELSE LET reply_data == json_loads(resp.text) IN
       IF ~reply_data.ok
       THEN [kind |-> "fault", reply |-> JNull, error |-> <<>>, raised |-> "JSONDecodeError"]
       ELSE IF reply_data.v.t # "dict"
       THEN [kind |-> "fault", reply |-> JNull, error |-> <<>>, raised |-> "TypeError"]
       ELSE IF ~HasKey(reply_data.v, <<"message">>)
       THEN [kind |-> "fault", reply |-> JNull, error |-> <<>>, raised |-> "KeyError"]
       ELSE LET message == DictItem(reply_data.v, <<"message">>) IN
            IF message.t # "dict"
            THEN [kind |-> "fault", reply |-> JNull, error |-> <<>>, raised |-> "TypeError"]
            ELSE IF ~HasKey(message, <<"content">>)
            THEN [kind |-> "fault", reply |-> JNull, error |-> <<>>, raised |-> "KeyError"]
            ELSE [kind |-> "response", reply |-> DictItem(message, <<"content">>),
                  error |-> <<>>, raised |-> ""]

\* a faulty accumulation, which puts the new fragment first (tests C3)
Prepend(full_reply_content, fragment) == fragment \o full_reply_content

\* full_reply_content += fragment
Accumulate(full_reply_content, fragment) == full_reply_content \o fragment

\* lines 138-149: what the relay does with a chunk it has yielded.  raised is
\* the exception that leaves the generator ("" when none does: a
\* JSONDecodeError is caught), full_reply_content the accumulator after it
HistoryFragment(decoded_chunk, full_reply_content) ==
  LET clean_chunk == Strip(decoded_chunk)
      skip == [raised |-> "", full_reply_content |-> full_reply_content]
      raise(e) == [raised |-> e, full_reply_content |-> full_reply_content]
  IN IF clean_chunk = <<>> THEN skip
     ELSE LET json_line == json_loads(clean_chunk) IN
          IF ~json_line.ok THEN skip
          ELSE IF json_line.v.t # "dict" THEN raise("AttributeError")
          ELSE LET message == DictGet(json_line.v, <<"message">>, JDict(<<>>)) IN
               IF message.t # "dict" THEN raise("AttributeError")
               ELSE LET content == DictGet(message, <<"content">>, JNull) IN
                    IF ~Truthy(content) THEN skip
                    ELSE IF content.t # "str" THEN raise("TypeError")
                    ELSE [raised |-> "",
                          full_reply_content |-> Accumulate(full_reply_content, content.s)]

\* a faulty chat(), which does not record the user's turn (tests C8)
ForgetUser(history, message) == history

\* a faulty chat(), which puts the user's turn first in the list (tests C19)
PrependUser(history, message) == <<UserTurn(message)>> \o history

\* line 109: conversation_history.append({"role": "user", ...})
AppendUser(history, message) == Append(history, UserTurn(message))

\* line 172: conversation_history.append({"role": "assistant", ...})
AppendReply(history, reply) == Append(history, AssistantTurn(reply))

\* a faulty commit, which writes the reply over the last turn of the list
\* (tests C20)
OverwriteLast(history, full_reply_content) ==
  [history EXCEPT ![Len(history)] = AssistantTurn(JStr(full_reply_content))]

\* lines 153-155: the reassembled reply is appended as the assistant's turn
AppendStreamed(history, full_reply_content) ==
  Append(history, AssistantTurn(JStr(full_reply_content)))

\* a faulty test, which commits an empty reply too (tests C6)
AnyReply(full_reply_content) == TRUE

\* line 152: whether the finished stream is committed
HasReply(full_reply_content) == full_reply_content # <<>>


(***************************************************************************)
(* The state.                                                              *)
(***************************************************************************)
VARIABLES
  phase,                 \* "boot" (module being imported), "up", "crashed"
  chatlog,               \* chatlog.json: [exists, text]
  storage,               \* "ok" or "unavailable": whether open(.., "w") succeeds
  heap,                  \* the list objects: ListIds -> sequence of elements
  conversation_history,  \* the list the global name is bound to
  req,                   \* the chat requests in flight, by slot
  accepted               \* chat requests accepted so far

vars == <<phase, chatlog, storage, heap, conversation_history, req, accepted>>

\* two requests may be in flight; a list object is kept alive by the global
\* name or by the json_payload of a request in flight
Slots == {1, 2}
ListIds == 0..Cardinality(Slots)

\* a free slot.  The fields of a request: pc, the position of its coroutine
\* or generator; stream and message, of the ChatRequest; messages, the list
\* json_payload["messages"] refers to; sent, the messages as serialized in
\* the HTTP request to the backend; received, the chunks the backend has
\* delivered; forwarded, the texts yielded to the caller; the accumulator
\* full_reply_content; outcome, what the caller got back; and, recorded for
\* the properties only, the conversation and the file as the request found
\* them (before, before_log), what client.post gave (answer) and the number
\* of commits the request has made
NoOutcome == [kind |-> "none", reply |-> JNull, error |-> <<>>, raised |-> ""]
IdleReq ==
  [pc |-> "idle", stream |-> FALSE, message |-> <<>>, messages |-> 0, sent |-> <<>>,
   received |-> <<>>, forwarded |-> <<>>, full_reply_content |-> <<>>,
   outcome |-> NoOutcome, before |-> <<>>, before_log |-> NoFile,
   answer |-> [raised |-> "", status_code |-> 0, text |-> <<>>], commits |-> 0]

InFlight == {r \in Slots : req[r].pc # "idle"}

\* the conversation: the elements of the list conversation_history names
History == heap[conversation_history]

\* list objects nothing refers to any more are dropped
Collect(h, global, rq) ==
  [i \in ListIds |->
     IF i = global \/ \E r \in Slots : rq[r].pc # "idle" /\ rq[r].messages = i
     THEN h[i] ELSE <<>>]

\* the object a new list gets: the first one no request in flight refers to
NewList ==
  CHOOSE i \in ListIds :
    /\ \A r \in InFlight : req[r].messages # i
    /\ \A j \in ListIds : (\A r \in InFlight : req[r].messages # j) => i <= j

InitWith(files) ==
  /\ phase = "boot"
  /\ chatlog \in files
  /\ storage = "ok"
  /\ heap = [i \in ListIds |-> <<>>]
  /\ conversation_history = 0
  /\ req = [r \in Slots |-> IdleReq]
  /\ accepted = 0

(***************************************************************************)
(* Startup and reset.                                                      *)
(***************************************************************************)
\* line 99: load_history_from_file() as the module is imported
Startup ==
  /\ phase = "boot"
  /\ LET loaded == load_history_from_file(chatlog) IN
     \/ /\ loaded.raised = ""
        /\ phase' = "up"
        /\ heap' = [heap EXCEPT ![conversation_history] = loaded.history]
     \/ /\ loaded.raised # ""
        /\ phase' = "crashed"
        /\ heap' = heap
  /\ UNCHANGED <<chatlog, storage, conversation_history, req, accepted>>

\* a faulty reset, which does not save the fresh conversation (tests C15)
ResetWithoutSave(between) ==
  /\ phase = "up"
  /\ between => InFlight = {}
  /\ LET fresh == NewList
     IN /\ conversation_history' = fresh
        /\ heap' = Collect([heap EXCEPT ![fresh] = FreshHistory], fresh, req)
  /\ UNCHANGED <<phase, chatlog, storage, req, accepted>>

\* POST /api/reset: reset_history(), then save_history_to_file().  between
\* is TRUE where a reset is only sent between requests
Reset(between) ==
  /\ phase = "up"
  /\ between => InFlight = {}
  /\ LET fresh == NewList
         saved == save_history_to_file(FreshHistory, chatlog, storage)
     IN /\ conversation_history' = fresh
        /\ heap' = Collect([heap EXCEPT ![fresh] = FreshHistory], fresh, req)
        /\ chatlog' = saved.log
  /\ UNCHANGED <<phase, storage, req, accepted>>


(***************************************************************************)
(* POST /api/chat.                                                         *)
(***************************************************************************)
\* an exception leaves the coroutine or the generator of request r
Fault(r, e) ==
  [req[r] EXCEPT !.pc = "done",
                 !.outcome = [kind |-> "fault", reply |-> JNull, error |-> <<>>, raised |-> e]]

\* lines 103-119, and 159 or 162-165: the user's turn is appended and the
\* payload built; a buffered request is sent to the backend at once, a
\* streamed one returns the StreamingResponse whose generator has not run
ChatAccept(r, message, stream, limit, cap) ==
  /\ phase = "up"
  /\ accepted < cap
  /\ Cardinality(InFlight) < limit
  /\ req[r].pc = "idle"
  /\ \A q \in Slots : req[q].pc = "idle" => r <= q
  /\ heap' = [heap EXCEPT ![conversation_history] = AppendUser(@, message)]
  /\ req' = [req EXCEPT ![r] =
       [IdleReq EXCEPT !.pc = IF stream THEN "returned" ELSE "await_post",
                       !.stream = stream,
                       !.message = message,
                       !.messages = conversation_history,
                       !.sent = IF stream THEN <<>> ELSE heap'[conversation_history],
                       !.before = History,
                       !.before_log = chatlog]]
  /\ accepted' = accepted + 1
  /\ UNCHANGED <<phase, chatlog, storage, conversation_history>>

\* lines 167-177: client.post has returned resp (or raised)
PostReturns(r, resp) ==
  /\ req[r].pc = "await_post"
  /\ LET out == BufferedOutcome(resp) IN
     IF out.kind = "response"
     THEN LET appended == AppendReply(History, out.reply)
              saved == save_history_to_file(appended, chatlog, storage)
          IN /\ heap' = [heap EXCEPT ![conversation_history] = appended]
             /\ chatlog' = saved.log
             /\ req' = [req EXCEPT ![r] =
                  IF saved.raised # "" THEN [Fault(r, saved.raised) EXCEPT !.answer = resp]
                  ELSE [req[r] EXCEPT !.pc = "done", !.outcome = out,
                                      !.answer = resp, !.commits = @ + 1]]
     ELSE /\ req' = [req EXCEPT ![r] =
                  [req[r] EXCEPT !.pc = "done", !.outcome = out, !.answer = resp]]
          /\ UNCHANGED <<heap, chatlog>>
  /\ UNCHANGED <<phase, storage, conversation_history, accepted>>

\* lines 122-129: the generator starts: the accumulator is emptied and the
\* request, with the messages as the list holds them now, goes to the backend
StreamStart(r) ==
  /\ req[r].pc = "returned"
  /\ req' = [req EXCEPT ![r] = [req[r] EXCEPT !.pc = "await_chunk",
                                              !.full_reply_content = <<>>,
                                              !.sent = heap[req[r].messages]]]
  /\ UNCHANGED <<phase, chatlog, storage, heap, conversation_history, accepted>>

\* lines 130-135: aiter_bytes() delivers a chunk: an empty one is passed
\* over, any other is decoded and yielded to the caller
ChunkArrives(r, chunk, most) ==
  /\ req[r].pc = "await_chunk"
  /\ Len(req[r].received) < most
  /\ LET got == [req[r] EXCEPT !.received = Append(@, chunk)]
         decoded_chunk == Decode(chunk)
     IN req' = [req EXCEPT ![r] =
          IF chunk = <<>> THEN got
          ELSE IF ~decoded_chunk.ok
          THEN [got EXCEPT !.pc = "done",
                           !.outcome = [kind |-> "fault", reply |-> JNull, error |-> <<>>,
                                        raised |-> "UnicodeDecodeError"]]
          ELSE [got EXCEPT !.pc = "yielded",
                           !.forwarded = Append(@, decoded_chunk.text)]]
  /\ UNCHANGED <<phase, chatlog, storage, heap, conversation_history, accepted>>

\* a faulty relay, which saves the history after every chunk (tests C5)
ChunkParseAndSave(r) ==
  /\ req[r].pc = "yielded"
  /\ LET decoded_chunk == req[r].forwarded[Len(req[r].forwarded)]
         read == HistoryFragment(decoded_chunk, req[r].full_reply_content)
     IN req' = [req EXCEPT ![r] =
          IF read.raised # "" THEN Fault(r, read.raised)
          ELSE [req[r] EXCEPT !.pc = "await_chunk",
                              !.full_reply_content = read.full_reply_content]]
  /\ chatlog' = save_history_to_file(History, chatlog, storage).log
  /\ UNCHANGED <<phase, storage, heap, conversation_history, accepted>>

\* lines 138-149: the generator is resumed after the yield and reads the
\* chunk for the history
ChunkParse(r) ==
  /\ req[r].pc = "yielded"
  /\ LET decoded_chunk == req[r].forwarded[Len(req[r].forwarded)]
         read == HistoryFragment(decoded_chunk, req[r].full_reply_content)
     IN req' = [req EXCEPT ![r] =
          IF read.raised # "" THEN Fault(r, read.raised)
          ELSE [req[r] EXCEPT !.pc = "await_chunk",
                              !.full_reply_content = read.full_reply_content]]
  /\ UNCHANGED <<phase, chatlog, storage, heap, conversation_history, accepted>>

\* line 130: the backend closes the stream: the loop ends and the two
\* `async with` blocks are left
StreamEnds(r) ==
  /\ req[r].pc = "await_chunk"
  /\ req' = [req EXCEPT ![r] = [req[r] EXCEPT !.pc = "closing"]]
  /\ UNCHANGED <<phase, chatlog, storage, heap, conversation_history, accepted>>

\* a faulty relay, which commits what it has when the stream fails
\* (tests C10)
StreamFailsAndCommits(r, e) ==
  /\ req[r].pc = "await_chunk"
  /\ LET appended == IF HasReply(req[r].full_reply_content)
                     THEN AppendStreamed(History, req[r].full_reply_content)
                     ELSE History
     IN /\ heap' = [heap EXCEPT ![conversation_history] = appended]
        /\ chatlog' = save_history_to_file(appended, chatlog, storage).log
  /\ req' = [req EXCEPT ![r] = Fault(r, e)]
  /\ UNCHANGED <<phase, storage, conversation_history, accepted>>

\* lines 124-130: the connection fails or times out while the generator
\* waits for the response or for the next chunk
StreamFails(r, e) ==
  /\ req[r].pc = "await_chunk"
  /\ req' = [req EXCEPT ![r] = Fault(r, e)]
  /\ UNCHANGED <<phase, chatlog, storage, heap, conversation_history, accepted>>

\* lines 151-157: after the stream, the reply is appended and saved
StreamCommit(r) ==
  /\ req[r].pc = "closing"
  /\ IF HasReply(req[r].full_reply_content)
     THEN LET appended == AppendStreamed(History, req[r].full_reply_content)
              saved == save_history_to_file(appended, chatlog, storage)
          IN /\ heap' = [heap EXCEPT ![conversation_history] = appended]
             /\ chatlog' = saved.log
             /\ req' = [req EXCEPT ![r] =
                  IF saved.raised # "" THEN Fault(r, saved.raised)
                  ELSE [req[r] EXCEPT !.pc = "done", !.commits = @ + 1,
                                      !.outcome = [NoOutcome EXCEPT !.kind = "streamed"]]]
     ELSE /\ req' = [req EXCEPT ![r] =
                  [req[r] EXCEPT !.pc = "done",
                                 !.outcome = [NoOutcome EXCEPT !.kind = "streamed"]]]
          /\ UNCHANGED <<heap, chatlog>>
  /\ UNCHANGED <<phase, storage, conversation_history, accepted>>

\* the caller has the whole answer and the request is over
Retire(r) ==
  /\ req[r].pc = "done"
  /\ req' = [req EXCEPT ![r] = IdleReq]
  /\ heap' = Collect(heap, conversation_history, req')
  /\ UNCHANGED <<phase, chatlog, storage, conversation_history, accepted>>

StreamErrors == {"httpx.ConnectError", "httpx.ReadTimeout"}
OverlapStreamErrors == {"httpx.ReadTimeout"}

(***************************************************************************)
(* The environment of the process: the medium of chatlog.json and the      *)
(* life of the process itself.                                             *)
(***************************************************************************)
\* line 65: open("chatlog.json", "w") starts to fail (the medium is full,
\* read-only or gone), or works again
StorageChanges(to) ==
  /\ storage # to
  /\ storage' = to
  /\ UNCHANGED <<phase, chatlog, heap, conversation_history, req, accepted>>

\* lines 45 and 99: the process is stopped and started again.  Its memory
\* and the requests in flight are gone, chatlog.json is as the last save
\* left it, and load_history_from_file() runs on it as the module is imported
Restart ==
  /\ phase = "up"
  /\ LET loaded == load_history_from_file(chatlog) IN
     /\ phase' = IF loaded.raised = "" THEN "up" ELSE "crashed"
     /\ heap' = [i \in ListIds |-> IF i = 0 THEN loaded.history ELSE <<>>]
  /\ conversation_history' = 0
  /\ req' = [r \in Slots |-> IdleReq]
  /\ UNCHANGED <<chatlog, storage, accepted>>

(***************************************************************************)
(* The specifications.  Spec: one relay in flight at a time and resets     *)
(* between requests, with every input.  SpecOverlap: two requests, which   *)
(* may overlap each other and resets, with fewer inputs.                   *)
(***************************************************************************)
Init == InitWith(StartFiles)

Next ==
  \/ Startup
  \/ Reset(TRUE)
  \/ \E r \in Slots, m \in Messages, s \in BOOLEAN : ChatAccept(r, m, s, 1, MaxRequests)
  \/ \E r \in Slots, resp \in PostResults : PostReturns(r, resp)
  \/ \E r \in Slots : StreamStart(r)
  \/ \E r \in Slots, c \in Chunks : ChunkArrives(r, c, MaxChunks)
  \/ \E r \in Slots : ChunkParse(r)
  \/ \E r \in Slots : StreamEnds(r)
  \/ \E r \in Slots, e \in StreamErrors : StreamFails(r, e)
  \/ \E r \in Slots : StreamCommit(r)
  \/ \E r \in Slots : Retire(r)

Spec == Init /\ [][Next]_vars

InitOverlap == InitWith(OverlapStartFiles)

NextOverlap ==
  \/ Startup
  \/ Reset(FALSE)
  \/ \E r \in Slots, m \in OverlapMessages, s \in BOOLEAN :
       ChatAccept(r, m, s, Cardinality(Slots), Cardinality(Slots))
  \/ \E r \in Slots, resp \in OverlapPostResults : PostReturns(r, resp)
  \/ \E r \in Slots : StreamStart(r)
  \/ \E r \in Slots, c \in OverlapChunks : ChunkArrives(r, c, MaxOverlapChunks)
  \/ \E r \in Slots : ChunkParse(r)
  \/ \E r \in Slots : StreamEnds(r)
  \/ \E r \in Slots, e \in OverlapStreamErrors : StreamFails(r, e)
  \/ \E r \in Slots : StreamCommit(r)
  \/ \E r \in Slots : Retire(r)

SpecOverlap == InitOverlap /\ [][NextOverlap]_vars

\* SpecDurable: one relay in flight at a time, with the storage failing and
\* recovering and the process restarting at any moment
NextDurable ==
  \/ Startup
  \/ Reset(TRUE)
  \/ \E r \in Slots, m \in Messages, s \in BOOLEAN : ChatAccept(r, m, s, 1, MaxDurableRequests)
  \/ \E r \in Slots, resp \in OverlapPostResults : PostReturns(r, resp)
  \/ \E r \in Slots : StreamStart(r)
  \/ \E r \in Slots, c \in OverlapChunks : ChunkArrives(r, c, MaxOverlapChunks)
  \/ \E r \in Slots : ChunkParse(r)
  \/ \E r \in Slots : StreamEnds(r)
  \/ \E r \in Slots, e \in OverlapStreamErrors : StreamFails(r, e)
  \/ \E r \in Slots : StreamCommit(r)
  \/ \E r \in Slots : Retire(r)
  \/ \E to \in {"ok", "unavailable"} : StorageChanges(to)
  \/ Restart

SpecDurable == InitOverlap /\ [][NextDurable]_vars


(***************************************************************************)
(* Properties.  What the properties read of a request is what the model    *)
(* records of it; the turns they expect are written out here and not taken *)
(* from the operators of the relay.                                        *)
(***************************************************************************)
\* the role of a conversation element, "" when it has none
RoleOf(turn) ==
  IF turn.t = "dict" /\ HasKey(turn, <<"role">>) /\ DictItem(turn, <<"role">>).t = "str"
     /\ Len(DictItem(turn, <<"role">>).s) = 1
  THEN DictItem(turn, <<"role">>).s[1]
  ELSE ""


Requests == {r \in Slots : req[r].pc # "idle"}
Buffered == {r \in Requests : ~req[r].stream}
Streamed == {r \in Requests : req[r].stream}

\* the conversation a request found, followed by its own user turn
WithUser(r) == req[r].before \o <<Turn("user", JStr(req[r].message))>>

\* the persisted record holds exactly the turns of history
Persisted(history) ==
  chatlog.exists /\ json_loads(chatlog.text) = [ok |-> TRUE, v |-> JList(history)]

\* message.content of a JSON text, when it parses to an object that has one
HasMessageContent(text) ==
  LET j == json_loads(text) IN
  /\ j.ok /\ j.v.t = "dict" /\ HasKey(j.v, <<"message">>)
  /\ DictItem(j.v, <<"message">>).t = "dict"
  /\ HasKey(DictItem(j.v, <<"message">>), <<"content">>)
MessageContent(text) == DictItem(DictItem(json_loads(text).v, <<"message">>), <<"content">>)

\* the fragment a chunk carries: its message.content when the chunk parses
\* to an object with a non-empty text there, and nothing otherwise
ChunkContent(chunk) ==
  IF HasMessageContent(chunk) /\ MessageContent(chunk).t = "str"
  THEN MessageContent(chunk).s ELSE <<>>

RECURSIVE Reassembled(_)
Reassembled(chunks) ==
  IF chunks = <<>> THEN <<>> ELSE ChunkContent(Head(chunks)) \o Reassembled(Tail(chunks))

IsData(chunk) == chunk # <<>>
\* the chunks that carry bytes
DataChunks(chunks) == SelectSeq(chunks, IsData)

NetworkErrors == {"httpx.ConnectError", "httpx.ReadTimeout"}

\* C1: once the module is loaded, in every state the conversation is
\* non-empty and its first turn has role system
C1_FirstTurnIsSystem ==
  phase = "up" => History # <<>> /\ RoleOf(History[1]) = "system"

\* a streamed reply has been committed on top of a restored conversation
C1_Witness ==
  /\ phase = "up" /\ Len(History) = 5
  /\ \E r \in Streamed : req[r].pc = "done" /\ req[r].commits = 1

\* C2: a buffered request whose backend call returned 200 with
\* message.content = R has, when it returns, given the caller {response: R},
\* and the conversation and the persisted record are the conversation before
\* the request followed by (user, message) and (assistant, R)
C2_BufferedReplyCommitted ==
  \A r \in Buffered :
    ( /\ req[r].pc = "done"
      /\ req[r].answer.raised = "" /\ req[r].answer.status_code = 200
      /\ HasMessageContent(req[r].answer.text) )
    => LET R == MessageContent(req[r].answer.text) IN
       /\ req[r].outcome.kind = "response"
       /\ req[r].outcome.reply = R
       /\ History = WithUser(r) \o <<Turn("assistant", R)>>
       /\ Persisted(History)

C2_Witness ==
  \E r \in Buffered :
    /\ req[r].pc = "done" /\ req[r].answer.text = HelloThere
    /\ req[r].outcome.kind = "response" /\ Len(req[r].before) = 3

C4_EveryChunkForwarded ==
  \A r \in Streamed : req[r].forwarded = DataChunks(req[r].received)

\* C5: a streamed relay neither appends to the conversation nor writes the
\* persisted record between its acceptance and the end of its chunk
\* sequence; it commits in the one step that follows the end of the
\* sequence, at most once, and changes nothing after that
C5_CommitOnceAfterStream ==
  [][\A r \in Slots :
       (req[r].stream /\ req'[r] # req[r]) =>
         CASE req[r].pc \in {"returned", "await_chunk", "yielded"} ->
                /\ heap' = heap /\ chatlog' = chatlog
                /\ conversation_history' = conversation_history
                /\ req'[r].commits = 0
           [] req[r].pc = "closing" ->
                /\ req'[r].pc = "done" /\ req'[r].commits <= 1
                /\ (heap' # heap \/ chatlog' # chatlog) => req'[r].commits = 1
           [] OTHER ->
                /\ chatlog' = chatlog
                /\ heap'[conversation_history'] = heap[conversation_history]
    ]_vars

\* a committed stream that carried a chunk that did not parse
C5_Witness ==
  \E r \in Streamed :
    /\ req[r].pc = "done" /\ req[r].commits = 1
    /\ \E i \in 1..Len(req[r].received) : req[r].received[i] = SplitLine

\* C6: a streamed relay none of whose chunks carried content has, once it is
\* over, appended no assistant turn and persisted nothing
C6_NoContentNoCommit ==
  \A r \in Streamed :
    (req[r].pc = "done" /\ Reassembled(req[r].received) = <<>>)
    => /\ req[r].commits = 0
       /\ History = WithUser(r)
       /\ chatlog = req[r].before_log

\* a stream that ended normally after two chunks that did not parse
C6_Witness ==
  \E r \in Streamed :
    /\ req[r].pc = "done" /\ req[r].outcome.kind = "streamed"
    /\ req[r].received = <<SplitLine, SplitLine>>

\* C7: a buffered request whose backend call returned a status S other than
\* 200 with body B returns {error: "Error S: B"}, appends no assistant turn
\* and persists nothing
C7_BadStatusIsErrorPayload ==
  \A r \in Buffered :
    (req[r].pc = "done" /\ req[r].answer.raised = "" /\ req[r].answer.status_code # 200)
    => /\ req[r].outcome.kind = "error"
       /\ req[r].outcome.error =
            <<"Error ", req[r].answer.status_code, ": ", req[r].answer.text>>
       /\ req[r].commits = 0
       /\ History = WithUser(r)
       /\ chatlog = req[r].before_log

C7_Witness ==
  \E r \in Buffered :
    /\ req[r].pc = "done" /\ req[r].answer.status_code = 500
    /\ req[r].answer.text = <<Word("oops")>>

\* C8: from its acceptance on a request's user turn is in the conversation,
\* the messages that go to the backend end with it, and it is still there
\* when the request has failed
C8_UserTurnFirstAndKept ==
  \A r \in Requests :
    /\ req[r].pc # "done" => History = WithUser(r)
    /\ req[r].sent # <<>> => req[r].sent = WithUser(r)
    /\ (req[r].pc = "done" /\ req[r].outcome.kind \in {"error", "fault"})
         => History = WithUser(r)

\* a buffered request has failed on a timeout
C8_Witness ==
  \E r \in Buffered :
    req[r].pc = "done" /\ req[r].outcome.raised = "httpx.ReadTimeout"

\* C9: a buffered request whose backend call raised a network error or a
\* timeout returns a structured error payload
C9_NetworkErrorIsErrorPayload ==
  \A r \in Buffered :
    (req[r].pc = "done" /\ req[r].answer.raised \in NetworkErrors)
    => req[r].outcome.kind = "error"

\* C10: a streamed relay whose backend call failed on a network error or a
\* timeout has committed nothing, whatever it had accumulated, and the
\* caller keeps every chunk that was forwarded
C10_FailedStreamCommitsNothing ==
  \A r \in Streamed :
    (req[r].pc = "done" /\ req[r].outcome.raised \in NetworkErrors)
    => /\ req[r].commits = 0
       /\ History = WithUser(r)
       /\ chatlog = req[r].before_log
       /\ req[r].forwarded = DataChunks(req[r].received)

\* a stream has failed after a chunk with content was forwarded
C10_Witness ==
  \E r \in Streamed :
    /\ req[r].pc = "done" /\ req[r].outcome.raised \in NetworkErrors
    /\ req[r].full_reply_content # <<>> /\ req[r].forwarded # <<>>

\* the exceptions lines 142-144 raise on a chunk and line 145 does not catch
ChunkErrors == {"AttributeError", "TypeError"}

IsText(chunk) == Decode(chunk).ok

\* C11: no chunk makes the relay raise: a relay all of whose chunks were
\* valid UTF-8 never ends on an error of reading a chunk, so that a chunk
\* that is not a JSON object, or whose message is not an object, or whose
\* content is not a text, is skipped like one that does not parse
C11_MalformedChunkSkipped ==
  \A r \in Streamed :
    (\A i \in 1..Len(req[r].received) : IsText(req[r].received[i]))
    => ~(req[r].pc = "done" /\ req[r].outcome.raised \in ChunkErrors)

\* the durable record holds a conversation: a non-empty list whose first
\* element has role system
RecordIsConversation(log) ==
  /\ log.exists
  /\ LET j == json_loads(log.text) IN
     j.ok /\ j.v.t = "list" /\ j.v.items # <<>> /\ RoleOf(j.v.items[1]) = "system"

\* C12: when the module has been imported on a durable record that is
\* missing or holds no conversation, the process is up and, until the first
\* request, the conversation is exactly the system turn
C12_RestoreFallsBackToFresh ==
  (phase # "boot" /\ accepted = 0 /\ ~RecordIsConversation(chatlog))
  => /\ phase = "up"
     /\ History = <<Turn("system", JStr(SYSTEM_PROMPT))>>

\* C13: no request ends on the failure of a save: when chatlog.json cannot
\* be written at a commit, the request still returns its reply (or ends its
\* stream) and the conversation keeps the turns it appended
C13_PersistFailureSwallowed ==
  \A r \in Requests :
    req[r].pc = "done" =>
      /\ req[r].outcome.raised # "OSError"
      /\ Len(History) > Len(req[r].before)

\* a turn: an object with a role and a content, both texts
IsTurn(e) ==
  /\ e.t = "dict" /\ HasKey(e, <<"role">>) /\ HasKey(e, <<"content">>)
  /\ DictItem(e, <<"role">>).t = "str" /\ DictItem(e, <<"content">>).t = "str"

\* a well-formed conversation: turns, the first of which has role system
WellFormed(h) ==
  /\ h # <<>> /\ RoleOf(h[1]) = "system"
  /\ \A i \in 1..Len(h) : IsTurn(h[i])

\* chatlog.json is what a successful save of history writes
JustPersisted(history) == chatlog = FileOf(DumpValue(JList(history)))

\* C14: when the process restarts on the record that a save of the
\* well-formed conversation in memory has written, the restored conversation
\* is that conversation, turn for turn and in order
C14_PersistRestoreRoundTrip ==
  [][(Restart /\ WellFormed(History) /\ JustPersisted(History))
       => /\ phase' = "up"
          /\ heap'[conversation_history'] = History
    ]_vars

\* after the last request of the run the process is up, with nothing in
\* flight, on a conversation of two exchanges that is the one on record
C14_Witness ==
  /\ phase = "up" /\ InFlight = {} /\ accepted = MaxDurableRequests
  /\ JustPersisted(History) /\ WellFormed(History)
  /\ Len(History) = 5 /\ RoleOf(History[5]) = "assistant"

\* the record log holds exactly the turns of history
RecordHolds(log, history) ==
  log.exists /\ json_loads(log.text) = [ok |-> TRUE, v |-> JList(history)]

\* C15: every reset, whatever the conversation and the requests in flight,
\* leaves the conversation and the persisted record equal to exactly the
\* system turn; a reset that finds them so leaves both as they are
C15_ResetClearsAndPersists ==
  [][(\E between \in BOOLEAN : Reset(between))
       => /\ heap'[conversation_history'] = <<Turn("system", JStr(SYSTEM_PROMPT))>>
          /\ RecordHolds(chatlog', <<Turn("system", JStr(SYSTEM_PROMPT))>>)
          /\ ( /\ History = <<Turn("system", JStr(SYSTEM_PROMPT))>>
               /\ RecordHolds(chatlog, History) )
             => heap'[conversation_history'] = History /\ chatlog' = chatlog
    ]_vars

\* a reset has cleared the conversation while a stream that has accumulated
\* content is in flight
C15_Witness ==
  /\ History = <<Turn("system", JStr(SYSTEM_PROMPT))>>
  /\ RecordHolds(chatlog, History)
  /\ \E r \in Streamed : req[r].pc = "await_chunk" /\ req[r].full_reply_content # <<>>

\* C16: a buffered request whose backend call returned 200 with a body that
\* has no message.content ends in an error: the caller gets no reply, no
\* assistant turn is appended and nothing is persisted, so the conversation
\* is the one the request found followed by its user turn
C16_MissingContentIsError ==
  \A r \in Buffered :
    ( /\ req[r].pc = "done"
      /\ req[r].answer.raised = "" /\ req[r].answer.status_code = 200
      /\ ~HasMessageContent(req[r].answer.text) )
    => /\ req[r].outcome.kind \in {"error", "fault"}
       /\ req[r].outcome.reply = JNull
       /\ req[r].commits = 0
       /\ History = WithUser(r)
       /\ chatlog = req[r].before_log

\* a buffered request has ended on the body {"message": {}}, after a
\* restored conversation
C16_Witness ==
  \E r \in Buffered :
    /\ req[r].pc = "done" /\ req[r].answer.status_code = 200
    /\ json_loads(req[r].answer.text) =
         [ok |-> TRUE, v |-> JDict(<<Pair(<<"message">>, JDict(<<>>))>>)]
    /\ req[r].outcome.raised = "KeyError"
    /\ Len(req[r].before) = 3

\* C17: the messages a request has sent to the backend are the conversation
\* as the request found it followed by its own user turn, and nothing else,
\* whatever other requests and resets have done since it was accepted
C17_SentIsConversationAtAccept ==
  \A r \in Requests : req[r].sent # <<>> => req[r].sent = WithUser(r)

\* the number of turns of a role in a conversation
TurnsOf(history, role) ==
  Cardinality({i \in 1..Len(history) : RoleOf(history[i]) = role})

\* C18: no conversation has more assistant turns than user turns: a relay
\* that was in flight when a reset ran does not append its assistant turn to
\* the conversation the reset left
C18_ResetNotFollowedByStaleReply ==
  TurnsOf(History, "assistant") <= TurnsOf(History, "user")

\* the turns of the persisted record: none when there is no file
RecordTurns == IF chatlog.exists THEN json_loads(chatlog.text).v.items ELSE <<>>

IsPrefix(a, b) == Len(a) <= Len(b) /\ SubSeq(b, 1, Len(a)) = a

\* C19: while the process is up on a record that is missing or holds a
\* conversation, the turns of the record are the first turns of the
\* conversation in memory, in the same order
C19_RecordIsPrefixOfConversation ==
  (phase = "up" /\ (~chatlog.exists \/ RecordIsConversation(chatlog)))
  => IsPrefix(RecordTurns, History)

\* two requests are in flight on a restored conversation, one of them after
\* its backend call failed: the conversation has two turns the record lacks
C19_Witness ==
  /\ phase = "up" /\ RecordIsConversation(chatlog)
  /\ Len(RecordTurns) = 3 /\ Len(History) = 5
  /\ \E r \in Requests : req[r].pc = "done" /\ req[r].outcome.kind = "fault"
  /\ \E r \in Requests : req[r].pc # "done"

\* the requests accepted on the list the conversation still is: no reset has
\* run since they were accepted
OnConversation == {r \in Requests : req[r].messages = conversation_history}

\* the request has committed its reply
Succeeded(r) == req[r].pc = "done" /\ req[r].commits = 1

\* the reply a request has committed
ReplyOf(r) ==
  IF req[r].stream THEN JStr(req[r].full_reply_content) ELSE req[r].outcome.reply

\* history has the turn at a place after from
HasTurnAfter(history, from, turn) ==
  \E i \in (from + 1)..Len(history) : history[i] = turn

\* C20: with no reset in between, chat requests that overlap lose no turn.
\* Every step of a request leaves the turns the conversation had where they
\* were and only adds turns at its end; the user turn of a request in flight
\* stays where the request put it, and its assistant turn, once committed,
\* comes after it; when two requests have both committed, the conversation
\* is the one the first of them found with four turns added
C20_OverlappingRequestsLoseNoTurn ==
  /\ [](\A r \in OnConversation :
          /\ Len(History) > Len(req[r].before)
          /\ SubSeq(History, 1, Len(req[r].before)) = req[r].before
          /\ History[Len(req[r].before) + 1] = Turn("user", JStr(req[r].message))
          /\ Succeeded(r) =>
               HasTurnAfter(History, Len(req[r].before) + 1,
                            Turn("assistant", ReplyOf(r)))
          /\ \A q \in OnConversation :
               ( /\ q # r /\ Succeeded(r) /\ Succeeded(q)
                 /\ Len(req[r].before) < Len(req[q].before) )
               => Len(History) = Len(req[r].before) + 4)
  /\ [][(phase = "up" /\ ~(\E between \in BOOLEAN : Reset(between)))
          => IsPrefix(History, heap'[conversation_history'])
       ]_vars

\* a buffered and a streamed request have overlapped and both committed: the
\* two user turns come first, then the two assistant turns
C20_Witness ==
  \E r \in OnConversation, q \in OnConversation :
    /\ Succeeded(r) /\ Succeeded(q) /\ req[r].stream /\ ~req[q].stream
    /\ Len(History) = Len(req[r].before) + 4
    /\ RoleOf(History[Len(req[r].before) + 1]) = "user"
    /\ RoleOf(History[Len(req[r].before) + 2]) = "user"
    /\ RoleOf(History[Len(req[r].before) + 3]) = "assistant"
    /\ RoleOf(History[Len(req[r].before) + 4]) = "assistant"

====
